---- MODULE Spec2Model ----
(***************************************************************************)
(* SMPL Playground: the lights controller, the light classes and their     *)
(* markers, the rendering scene they write to, the two side panels of the  *)
(* top-level window and the body model.                                    *)
(*                                                                         *)
(* Lengths, positions, radii and pose values are in thousandths (0.01 is   *)
(* 10); angles are in degrees.  Python's None is 0 for an object reference *)
(* and "" for a name.                                                      *)
(***************************************************************************)
EXTENDS Integers, Sequences, FiniteSets, TLC

---------------------------------------------------------------------------
(* Bounds of the model *)

\* the size of a run of the lights controller: the light objects constructed,
\* plus the arrow-key steps (summed over the lights and the axes) the lights
\* are away from where they were constructed, plus the settings groups added
\* to the "Light controls" panel; the code limits none of the three
MaxSize == 5
\* the size of a run of the setters: the light objects constructed plus the
\* fields of the lights and of the sun that differ from their constructor
\* values at the same time
MaxSetterSize == 2
\* settings of the body model that differ from their defaults at the same
\* time: each pose or shape slider, the color, and (counted once) the gender
\* and age with their selectors
MaxDirty == 1

---------------------------------------------------------------------------
(* Program constants *)

SELECTED_LIGHT_MARKER_RADIUS == 30
LIGHT_MOVE_STEP == 10
DEFAULT_RADIUS == 10
DEFAULT_INTENSITY == 100000
DEFAULT_FALLOFF == 1000
DEFAULT_CONE_ANGLE == 1000
DEFAULT_AZIMUTH == 240
DEFAULT_ELEVATION == 10

KEY_LEFT == 263
KEY_RIGHT == 264
KEY_UP == 265
KEY_DOWN == 266
KEY_PAGE_DOWN == 270
KEY_PAGE_UP == 271

White == <<1000, 1000, 1000>>
Red == <<1000, 0, 0>>
Origin == <<0, 0, 0>>

\* uuid.uuid4().hex[:6]: the six hex digits a constructor draws; two of the
\* 16^6 values stand for them all, and a draw may repeat an earlier one
HexSuffixes == {"0a1b2c", "3d4e5f"}

PointLightNames == {"pl_" \o h : h \in HexSuffixes}

SpotLightNames == {"sl_" \o h : h \in HexSuffixes}

\* the names f"pl_{...}" and f"sl_{...}" a new light of the type can get
NewLightNames(type) == IF type = "SpotLight" THEN SpotLightNames ELSE PointLightNames

SunName == "Sun"

MarkerName(name) == "m_" \o name

\* DEFAULT_LIGHT_POSITION of constants.py: one fixed position per run
DefaultLightPositions == {Origin, <<0, 1000, 2000>>}

---------------------------------------------------------------------------
(* Degrees to direction: utils.sphere_dir, utils.yaw_pitch_to_direction *)

SinTable == <<0, 174, 342, 500, 643, 766, 866, 940, 985, 1000>>

\* math.sin(math.radians(d)) * 1000 for d a multiple of 10
Sin1000(d) ==
    LET r == d % 360
        q == IF r <= 90 THEN r
             ELSE IF r <= 180 THEN 180 - r
             ELSE IF r <= 270 THEN r - 180
             ELSE 360 - r
        v == SinTable[(q \div 10) + 1]
    IN IF r <= 180 THEN v ELSE 0 - v

Cos1000(d) == Sin1000(d + 90)

\* a product of two thousandths, rounded toward zero
Mul1000(a, b) ==
    LET p == a * b
    IN IF p >= 0 THEN p \div 1000 ELSE 0 - ((0 - p) \div 1000)

sphere_dir(azimuth_deg, elevation_deg) ==
    << Mul1000(Cos1000(elevation_deg), Sin1000(azimuth_deg)),
       Sin1000(elevation_deg),
       Mul1000(Cos1000(elevation_deg), Cos1000(azimuth_deg)) >>

yaw_pitch_to_direction(yaw_degree, pitch_degree) ==
    LET dy == Sin1000(pitch_degree)
        cp == Cos1000(pitch_degree)
    IN << Mul1000(cp, Sin1000(yaw_degree)), dy, Mul1000(cp, Cos1000(yaw_degree)) >>

\* the angles of the model: the multiples of 10 degrees in (-180, 180]
AngleGrid == {10 * d : d \in -17..18}

\* math.degrees(math.atan2(y, x)), to the nearest angle of the grid: the angle
\* whose unit vector (x along cos, y along sin) the vector (x, y) projects on
\* most; atan2(0, 0) is 0
Atan2Deg(y, x) ==
    IF x = 0 /\ y = 0 THEN 0
    ELSE CHOOSE d \in AngleGrid :
            \A e \in AngleGrid :
                y * Sin1000(d) + x * Cos1000(d) >= y * Sin1000(e) + x * Cos1000(e)

\* math.sqrt of a square of thousandths, rounded down
Sqrt1000(n) == CHOOSE r \in 0..1800 : r * r <= n /\ n < (r + 1) * (r + 1)

\* a conversion that takes the yaw as atan2(z, x)
direction_to_yaw_pitch_swapped(direction) ==
    LET x == direction[1]
        y == direction[2]
        z == direction[3]
        hyp == Sqrt1000(x * x + z * z)
    IN << Atan2Deg(z, x), Atan2Deg(y, hyp) >>

direction_to_yaw_pitch(direction) ==
    LET x == direction[1]
        y == direction[2]
        z == direction[3]
        hyp == Sqrt1000(x * x + z * z)
    IN << Atan2Deg(x, z), Atan2Deg(y, hyp) >>

---------------------------------------------------------------------------
VARIABLES
    lights,                 \* LightsController._lights: insertion-ordered dict, name -> light
    current_light,          \* LightsController._current_light: a light object, 0 for None
    objs,                   \* every light object constructed so far, by identity
    sun,                    \* LightsController._sun
    scene_lights,           \* rendering.Scene: the named lights
    scene_geometry,         \* rendering.Scene: the named geometries
    scene_sun,              \* rendering.Scene: the sun light, its switch, the indirect light
    combobox,               \* LightsController._lights_combobox
    remove_button_enabled,  \* LightsController._remove_light_button.enabled
    options_panel,          \* LightsController._current_light_options_panel
    default_light_position, \* constants.DEFAULT_LIGHT_POSITION
    err,                    \* the exception a handler raised, "" for none
    last_op,                \* the operation that produced this state
    panels,                 \* SMPLPlayground: the two side panels and their toggle buttons
    body                    \* components.scene.Model

vars == << lights, current_light, objs, sun, scene_lights, scene_geometry, scene_sun,
           combobox, remove_button_enabled, options_panel, default_light_position,
           err, last_op, panels, body >>

---------------------------------------------------------------------------
(* Python dict, insertion ordered: a sequence of [name, obj] *)

Keys(d) == [i \in 1..Len(d) |-> d[i].name]

Has(d, name) == \E i \in 1..Len(d) : d[i].name = name

Get(d, name) == d[CHOOSE i \in 1..Len(d) : d[i].name = name].obj

\* d[name] = obj: a key already there keeps its place
DictSet(d, name, obj) ==
    IF Has(d, name)
    THEN [i \in 1..Len(d) |-> IF d[i].name = name THEN [name |-> name, obj |-> obj] ELSE d[i]]
    ELSE Append(d, [name |-> name, obj |-> obj])

\* del d[name], for a name that is a key
DictDel(d, name) == SelectSeq(d, LAMBDA e : e.name # name)

\* a map without one key: Scene.remove_light, Scene.remove_geometry
Without(f, k) == [n \in DOMAIN f \ {k} |-> f[n]]

---------------------------------------------------------------------------
(* rendering.Scene, as the light classes use it *)

\* has_geometry / remove_geometry / add_geometry of one name
SceneSetGeometry(sg, name, geom) == (name :> geom) @@ Without(sg, name)

\* remove_light, then add_point_light or add_spot_light of one name
SceneSetLight(sl, name, params) == (name :> params) @@ Without(sl, name)

---------------------------------------------------------------------------
(* light.LightMarker *)

NewMarker(name, color) ==
    [name |-> name, position |-> Origin, color |-> color, radius |-> DEFAULT_RADIUS]

\* LightMarker._update: the sphere of the marker's radius, moved to its position,
\* painted in its color, replaces the geometry of the marker's name
MarkerUpdate(sg, m) ==
    SceneSetGeometry(sg, m.name,
        [position |-> m.position, radius |-> m.radius, color |-> m.color,
         base_color |-> m.color])

---------------------------------------------------------------------------
(* light.PointLight, light.SpotLight *)

\* what PointLight._update / SpotLight._update register under the light's name
LightParams(o) ==
    IF o.type = "SpotLight"
    THEN [kind |-> "spot", color |-> o.color, position |-> o.position,
          direction |-> yaw_pitch_to_direction(o.yaw, o.pitch),
          intensity |-> o.intensity, falloff |-> o.falloff,
          inner_cone_angle |-> o.inner_cone_angle,
          outer_cone_angle |-> o.outer_cone_angle, cast_shadow |-> o.cast_shadow]
    ELSE [kind |-> "point", color |-> o.color, position |-> o.position,
          direction |-> Origin,
          intensity |-> o.intensity, falloff |-> o.falloff,
          inner_cone_angle |-> 0, outer_cone_angle |-> 0,
          cast_shadow |-> o.cast_shadow]

LightUpdate(sl, o) == SceneSetLight(sl, o.name, LightParams(o))

\* the object PointLight.__init__ / SpotLight.__init__ / Light.__init__ build
NewLight(type, name, position) ==
    [type |-> type, name |-> name, position |-> position, color |-> White,
     intensity |-> DEFAULT_INTENSITY, falloff |-> DEFAULT_FALLOFF,
     cast_shadow |-> TRUE, yaw |-> 0, pitch |-> 0,
     inner_cone_angle |-> DEFAULT_CONE_ANGLE, outer_cone_angle |-> DEFAULT_CONE_ANGLE,
     marker |-> NewMarker(MarkerName(name), White),
     is_gui_built |-> FALSE]

---------------------------------------------------------------------------
(* The lights controller's operations work on the record of everything they   *)
(* read and write; a handler is the composition of the calls it makes.        *)

Ctl == [lights |-> lights, current_light |-> current_light, objs |-> objs,
        scene_lights |-> scene_lights, scene_geometry |-> scene_geometry,
        combobox |-> combobox, remove_button_enabled |-> remove_button_enabled,
        options_panel |-> options_panel, err |-> err]

Commit(c) ==
    /\ lights' = c.lights
    /\ current_light' = c.current_light
    /\ objs' = c.objs
    /\ scene_lights' = c.scene_lights
    /\ scene_geometry' = c.scene_geometry
    /\ combobox' = c.combobox
    /\ remove_button_enabled' = c.remove_button_enabled
    /\ options_panel' = c.options_panel
    /\ err' = c.err

\* PointLight(scene, position=...) / SpotLight(scene, position=...): the new
\* object, its marker's geometry, then the light's own _update
Construct(c, type, name, position) ==
    LET o == NewLight(type, name, position)
    IN [c EXCEPT !.objs = Append(@, o),
                 !.scene_geometry = MarkerUpdate(@, o.marker),
                 !.scene_lights = LightUpdate(@, o)]

\* LightMarker.set_radius
MarkerSetRadius(c, id, radius) ==
    LET m == [c.objs[id].marker EXCEPT !.radius = radius]
    IN [c EXCEPT !.objs[id].marker = m,
                 !.scene_geometry = MarkerUpdate(@, m)]

\* PointLight.set_position: the light's field, the marker's, then _update
SetPosition(c, id, position) ==
    LET m == [c.objs[id].marker EXCEPT !.position = position]
        o == [c.objs[id] EXCEPT !.position = position, !.marker = m]
    IN [c EXCEPT !.objs[id] = o,
                 !.scene_geometry = MarkerUpdate(@, m),
                 !.scene_lights = LightUpdate(@, o)]

\* GuiComponentInterface.build_gui
BuildGui(c, id) == [c EXCEPT !.objs[id].is_gui_built = TRUE]

\* GuiComponentInterface.destroy_gui, which PointLight.destroy_gui calls
DestroyGui(c, id) == [c EXCEPT !.objs[id].is_gui_built = FALSE]

\* PointLight.destroy: Light.destroy, whose body is empty, then destroy_gui
Destroy(c, id) == DestroyGui(c, id)

\* options_panel.add_child(light.build_gui())
AddSettingsGroup(c, id) ==
    [BuildGui(c, id) EXCEPT !.options_panel.children = Append(@, id)]

\* a _refresh_light_combobox that adds the keys to the items already there
RefreshLightComboboxKeepsItems(c, selected_light_name) ==
    LET keys == Keys(c.lights)
        hit == {i \in 1..Len(keys) : keys[i] = selected_light_name}
    IN [c EXCEPT !.combobox.items = @ \o keys,
                 !.combobox.selected_index =
                     IF hit = {} THEN 0 ELSE (CHOOSE i \in hit : TRUE) - 1]

\* LightsController._refresh_light_combobox: clear_items, then every key of the
\* mapping in order; the index (0-based) follows the selected name when it is a key
RefreshLightCombobox(c, selected_light_name) ==
    LET keys == Keys(c.lights)
        hit == {i \in 1..Len(keys) : keys[i] = selected_light_name}
    IN [c EXCEPT !.combobox.items = keys,
                 !.combobox.selected_index =
                     IF hit = {} THEN 0 ELSE (CHOOSE i \in hit : TRUE) - 1]

\* a _select_light that leaves the marker of the previous light as it is
SelectLightKeepsHighlight(c, name) ==
    IF name = "" \/ ~Has(c.lights, name)
    THEN RefreshLightCombobox([c EXCEPT !.current_light = 0], "")
    ELSE IF c.current_light # 0 /\ name = c.objs[c.current_light].name
    THEN c
    ELSE LET old == c.current_light
             c1 == IF old = 0 THEN c ELSE DestroyGui(c, old)
             new == Get(c1.lights, name)
             c2 == MarkerSetRadius([c1 EXCEPT !.current_light = new], new,
                                   SELECTED_LIGHT_MARKER_RADIUS)
         IN IF c2.objs[new].is_gui_built THEN c2 ELSE AddSettingsGroup(c2, new)

\* LightsController._select_light
SelectLight(c, name) ==
    IF name = "" \/ ~Has(c.lights, name)
    THEN RefreshLightCombobox([c EXCEPT !.current_light = 0], "")
    ELSE IF c.current_light # 0 /\ name = c.objs[c.current_light].name
    THEN c
    ELSE LET old == c.current_light
             c1 == IF old = 0 THEN c
                   ELSE LET d == DestroyGui(c, old)
                        IN IF Has(d.lights, d.objs[old].name)
                           THEN MarkerSetRadius(d, old, DEFAULT_RADIUS)
                           ELSE d
             new == Get(c1.lights, name)
             c2 == MarkerSetRadius([c1 EXCEPT !.current_light = new], new,
                                   SELECTED_LIGHT_MARKER_RADIUS)
         IN IF c2.objs[new].is_gui_built THEN c2 ELSE AddSettingsGroup(c2, new)

\* an _add_light that leaves the remove button as it was
AddLightKeepsButton(c, type, name) ==
    LET c1 == Construct(c, type, name, default_light_position)
        id == Len(c1.objs)
        c2 == AddSettingsGroup(c1, id)
        c3 == [c2 EXCEPT !.lights = DictSet(@, name, id)]
        c4 == SelectLight(c3, name)
        c5 == RefreshLightCombobox(c4, name)
    IN [c5 EXCEPT !.combobox.enabled = TRUE,
                  !.options_panel.visible = TRUE,
                  !.options_panel.is_open = TRUE]

\* LightsController._add_light, with the name the constructor drew
AddLightOp(c, type, name) ==
    LET c1 == Construct(c, type, name, default_light_position)
        id == Len(c1.objs)
        c2 == AddSettingsGroup(c1, id)
        c3 == [c2 EXCEPT !.lights = DictSet(@, name, id)]
        c4 == SelectLight(c3, name)
        c5 == RefreshLightCombobox(c4, name)
    IN [c5 EXCEPT !.combobox.enabled = TRUE,
                  !.remove_button_enabled = TRUE,
                  !.options_panel.visible = TRUE,
                  !.options_panel.is_open = TRUE]

\* LightsController._remove_current_light; del of a name that is no key raises
RemoveCurrentLightOp(c) ==
    IF c.current_light = 0 THEN c
    ELSE LET c1 == Destroy(c, c.current_light)
             name == c1.objs[c1.current_light].name
         IN IF ~Has(c1.lights, name) THEN [c1 EXCEPT !.err = "KeyError"]
            ELSE LET c2 == [c1 EXCEPT !.lights = DictDel(@, name)]
                     light_name == IF Len(c2.lights) > 0 THEN c2.lights[1].name ELSE ""
                     c3 == IF light_name # ""
                           THEN SelectLight(c2, light_name)
                           ELSE [c2 EXCEPT !.remove_button_enabled = FALSE,
                                           !.combobox.enabled = FALSE,
                                           !.options_panel.visible = FALSE,
                                           !.options_panel.is_open = FALSE]
                 IN RefreshLightCombobox(c3, light_name)

\* the position LightsController._move_current_light computes for a key
Moved(position, key) ==
    IF key = KEY_UP THEN [position EXCEPT ![2] = @ + LIGHT_MOVE_STEP]
    ELSE IF key = KEY_LEFT THEN [position EXCEPT ![1] = @ - LIGHT_MOVE_STEP]
    ELSE IF key = KEY_DOWN THEN [position EXCEPT ![2] = @ - LIGHT_MOVE_STEP]
    ELSE IF key = KEY_RIGHT THEN [position EXCEPT ![1] = @ + LIGHT_MOVE_STEP]
    ELSE IF key = KEY_PAGE_UP THEN [position EXCEPT ![3] = @ + LIGHT_MOVE_STEP]
    ELSE IF key = KEY_PAGE_DOWN THEN [position EXCEPT ![3] = @ - LIGHT_MOVE_STEP]
    ELSE position

\* LightsController._move_current_light
MoveCurrentLightOp(c, key) ==
    IF c.current_light = 0 THEN c
    ELSE SetPosition(c, c.current_light, Moved(c.objs[c.current_light].position, key))

---------------------------------------------------------------------------
(* Setters of the light classes; a color arrives as a tuple or as a gui.Color *)

\* isinstance(color, gui.Color): (color.red, color.green, color.blue)
AsTuple(color) == << color.red, color.green, color.blue >>

\* a set_color that leaves the marker alone
SetColorOfLightOnly(c, id, color) ==
    LET o == [c.objs[id] EXCEPT !.color = AsTuple(color)]
    IN [c EXCEPT !.objs[id] = o, !.scene_lights = LightUpdate(@, o)]

\* Light.set_color: the light's field, the marker's (LightMarker.set_color), _update
SetColor(c, id, color) ==
    LET m == [c.objs[id].marker EXCEPT !.color = AsTuple(color)]
        o == [c.objs[id] EXCEPT !.color = AsTuple(color), !.marker = m]
    IN [c EXCEPT !.objs[id] = o,
                 !.scene_geometry = MarkerUpdate(@, m),
                 !.scene_lights = LightUpdate(@, o)]

\* a setter that stores the field and leaves the scene's entry as it was
SetFieldWithoutUpdate(c, id, field, value) ==
    [c EXCEPT !.objs[id] = [c.objs[id] EXCEPT ![field] = value]]

\* the setters that store one field and call _update: Light.set_intensity,
\* PointLight.set_falloff / set_cast_shadow, SpotLight.set_yaw / set_pitch /
\* set_inner_cone_angle / set_outer_cone_angle
SetField(c, id, field, value) ==
    LET o == [c.objs[id] EXCEPT ![field] = value]
    IN [c EXCEPT !.objs[id] = o, !.scene_lights = LightUpdate(@, o)]

---------------------------------------------------------------------------
(* light.Sun *)

NewSun ==
    [name |-> SunName, azimuth_deg |-> DEFAULT_AZIMUTH, elevation_deg |-> DEFAULT_ELEVATION,
     color |-> White, intensity |-> DEFAULT_INTENSITY, enabled |-> TRUE,
     indirect_light_enable |-> TRUE, marker |-> NewMarker(MarkerName(SunName), White)]

\* an _update whose set_sun_light switches the sun on and that never calls
\* enable_sun_light
SunUpdateWithoutEnable(ss, u) ==
    [ss EXCEPT !.is_set = TRUE,
               !.direction = sphere_dir(u.azimuth_deg, u.elevation_deg),
               !.color = u.color,
               !.intensity = u.intensity,
               !.enabled = TRUE]

\* Sun._update: Scene.set_sun_light, then Scene.enable_sun_light
SunUpdate(ss, u) ==
    [ss EXCEPT !.is_set = TRUE,
               !.direction = sphere_dir(u.azimuth_deg, u.elevation_deg),
               !.color = u.color,
               !.intensity = u.intensity,
               !.enabled = u.enabled]

---------------------------------------------------------------------------
(* components.scene.Model: the body model *)

DEFAULT_SMPL_COLOR == <<850, 820, 800>>

DEFAULT_SMPL_POSE ==
    << 0, 0, 0, 0, 0, 0, 0, 0, 0, 0, 0, 0,
       0, 0, 0, 0, 0, 0, 0, 0, 0, 0, 300, 0,
       0, -300, 0, 0, 0, 0, 0, 0, 0, 0, 0, 0,
       0, 0, 0, -200, 0, -200, -200, 0, 200, 0, 0, 0,
       0, -100, -800, 0, 100, 800, 400, -300, 0, 400, 300, 0,
       -400, 0, 0, -400, 0, 0, 0, 0, -300, 0, 0, 300 >>

_GUI_MODEL_PARAMS_GROUPS ==
    << "Global orientation", "Left leg", "Right leg", "Waist (Spine)", "Knee left",
       "Knee right", "Belly (Spine 1)", "Ankle left", "Ankle right", "Chest (Spine 2)",
       "Feet left toes", "Feet right toes", "Neck", "Shoulder left", "Shoulder right",
       "Head", "Arm left", "Arm right", "Forearm left", "Forearm right", "Wrist left",
       "Wrist right", "Fingers left", "Fingers right" >>

MIN_POSE_VALUE == -3140
MAX_POSE_VALUE == 3140
MIN_BETAS_VALUE == -5000
MAX_BETAS_VALUE == 5000
NUM_BETAS == 10

ModelName == "smpl"

\* the items of the two radio buttons, lower-cased as the callbacks pass them
GenderItems == << "neutral", "male", "female" >>

AgeItems == << "adult", "kid" >>

\* the genders smplx.SMPL has a model file for
SmplGenders == {"neutral", "male", "female"}

\* torch.zeros((1, 10))
ZeroBetas == [i \in 1..NUM_BETAS |-> 0]

\* pose sliders bound to 1-based indices
PoseSliderIndicesFromOne ==
    [k \in 1..(3 * Len(_GUI_MODEL_PARAMS_GROUPS)) |-> ((k - 1) \div 3) * 3 + ((k - 1) % 3) + 1]

\* the index (0-based) each pose slider is bound to: param_index = i * 3 + j
PoseSliderIndices ==
    [k \in 1..(3 * Len(_GUI_MODEL_PARAMS_GROUPS)) |-> ((k - 1) \div 3) * 3 + ((k - 1) % 3)]

\* the index (0-based) each betas slider is bound to: range(10)
BetasSliderIndices == [k \in 1..10 |-> k - 1]

\* tensor[0, index + 1] = value: the write lands on the element after index
TensorSetNext(t, index, value) ==
    LET next == ((index + 1) % Len(t)) + 1
    IN [t EXCEPT ![next] = value]

\* tensor[0, index] = value: an index outside the tensor raises IndexError
\* (a negative one counts from the end)
TensorSet(t, index, value) ==
    IF index >= 0 /\ index < Len(t) THEN [t EXCEPT ![index + 1] = value]
    ELSE IF index < 0 /\ 0 - index <= Len(t) THEN [t EXCEPT ![Len(t) + index + 1] = value]
    ELSE t

TensorIndexOk(t, index) == index < Len(t) /\ 0 - index <= Len(t)

\* an _update whose body pose is pose[:, 2:]
ModelUpdateOverlapping(sg, b) ==
    SceneSetGeometry(sg, b.name,
        [betas |-> b.betas,
         body_pose |-> SubSeq(b.pose, 3, Len(b.pose)),
         global_orient |-> SubSeq(b.pose, 1, 3),
         smpl |-> b.smpl,
         color |-> b.color, base_color |-> b.color])

\* Model._update: the forward call on betas, pose[:, 3:] and pose[:, :3]; the
\* mesh of the result, painted, replaces the geometry of the model's name
ModelUpdate(sg, b) ==
    SceneSetGeometry(sg, b.name,
        [betas |-> b.betas,
         body_pose |-> SubSeq(b.pose, 4, Len(b.pose)),
         global_orient |-> SubSeq(b.pose, 1, 3),
         smpl |-> b.smpl,
         color |-> b.color, base_color |-> b.color])

\* Model._reload once SMPL(...) has loaded: the new model, on a full reload the
\* default pose and zero betas
Reloaded(b, full_reload) ==
    LET b1 == [b EXCEPT !.smpl = [gender |-> b.gender, age |-> b.age]]
    IN IF full_reload
       THEN [b1 EXCEPT !.pose = DEFAULT_SMPL_POSE, !.betas = ZeroBetas]
       ELSE b1

NewBody ==
    Reloaded([name |-> ModelName, gender |-> "neutral", age |-> "adult",
              color |-> DEFAULT_SMPL_COLOR, pose |-> << >>, betas |-> << >>,
              smpl |-> [gender |-> "", age |-> ""],
              is_gui_built |-> FALSE,
              gender_selected_index |-> 0, age_selected_index |-> 0,
              pose_sliders |-> << >>, betas_sliders |-> << >>], TRUE)

---------------------------------------------------------------------------
(* The state after construction: LightsController.__init__ (no light, the    *)
(* controls off, the sun built), ModelController.__init__ (the body model    *)
(* loaded and drawn), SMPLPlayground._build_gui (the Lights panel shown)     *)

EmptyMap == [n \in {} |-> 0]

Op(op, name, num, flag) == [op |-> op, name |-> name, num |-> num, flag |-> flag]

Init ==
    /\ lights = << >>
    /\ current_light = 0
    /\ objs = << >>
    /\ sun = NewSun
    /\ scene_lights = EmptyMap
    /\ scene_geometry = ModelUpdate(MarkerUpdate(EmptyMap, NewSun.marker), NewBody)
    /\ scene_sun = SunUpdate([is_set |-> FALSE, direction |-> Origin, color |-> Origin,
                              intensity |-> 0, enabled |-> FALSE,
                              indirect_light |-> TRUE], NewSun)
    /\ combobox = [items |-> << >>, selected_index |-> 0, enabled |-> FALSE]
    /\ remove_button_enabled = FALSE
    /\ options_panel = [visible |-> FALSE, is_open |-> FALSE, children |-> << >>]
    /\ default_light_position \in DefaultLightPositions
    /\ err = ""
    /\ last_op = Op("init", "", 0, FALSE)
    /\ panels = [lights_panel_visible |-> TRUE, smpl_panel_visible |-> FALSE,
                 lights_button_enabled |-> FALSE, smpl_button_enabled |-> TRUE]
    /\ body = NewBody

ControllerUnchanged ==
    UNCHANGED << lights, current_light, objs, scene_lights, scene_geometry, combobox,
                 remove_button_enabled, options_panel >>

---------------------------------------------------------------------------
(* Bounds on what a run explores *)

Abs(x) == IF x < 0 THEN 0 - x ELSE x

RECURSIVE SumOver(_, _)
\* the sum of f[i] over the indices of a sequence f
SumOver(f, n) == IF n = 0 THEN 0 ELSE f[n] + SumOver(f, n - 1)

\* how far, in total, the lights are from where they were constructed
Offset(c) ==
    SumOver([id \in 1..Len(c.objs) |->
                SumOver([i \in 1..3 |->
                    Abs(c.objs[id].position[i] - default_light_position[i])], 3)],
            Len(c.objs))

\* the size of a run that has reached c
ControllerSize(c) ==
    Len(c.objs) + (Offset(c) \div LIGHT_MOVE_STEP) + Len(c.options_panel.children)

WithinBounds(c) == ControllerSize(c) <= MaxSize

---------------------------------------------------------------------------
(* The lights controller's handlers *)

\* the "Add point light (A)" and "Add spot light (S)" buttons
ClickAddLight ==
    /\ err = ""
    /\ \E type \in {"PointLight", "SpotLight"} : \E name \in NewLightNames(type) :
         LET c == AddLightOp(Ctl, type, name)
         IN /\ WithinBounds(c)
            /\ Commit(c)
            /\ last_op' = Op("add", name, 0, FALSE)
    /\ UNCHANGED << sun, scene_sun, default_light_position, panels, body >>

\* the "Remove light (D)" button, which is clickable while enabled
ClickRemoveLight ==
    /\ err = ""
    /\ remove_button_enabled
    /\ WithinBounds(RemoveCurrentLightOp(Ctl))
    /\ Commit(RemoveCurrentLightOp(Ctl))
    /\ last_op' = Op("remove", IF current_light = 0 THEN "" ELSE objs[current_light].name,
                     0, FALSE)
    /\ UNCHANGED << sun, scene_sun, default_light_position, panels, body >>

\* the user picks an item of the combobox: the widget takes the index, then
\* LightsController._on_selected_light_change(text, idx)
ComboboxSelect ==
    /\ err = ""
    /\ combobox.enabled
    /\ \E idx \in 0..(Len(combobox.items) - 1) :
         LET text == combobox.items[idx + 1]
             c0 == [Ctl EXCEPT !.combobox.selected_index = idx]
             c == IF Has(c0.lights, text) THEN SelectLight(c0, text) ELSE c0
         IN /\ WithinBounds(c)
            /\ Commit(c)
            /\ last_op' = Op("select", text, 0, FALSE)
    /\ UNCHANGED << sun, scene_sun, default_light_position, panels, body >>

EventTypes == {"DOWN", "UP"}

LightMoveKeys == {KEY_LEFT, KEY_RIGHT, KEY_UP, KEY_DOWN, KEY_PAGE_DOWN, KEY_PAGE_UP}

\* ord("a"), ord("A") and so on; 32 stands for every key without a binding
AddPointKeys == {97, 65}

AddSpotKeys == {115, 83}

RemoveKeys == {100, 68}

SelectKeys == {122, 90, 120, 88}

OtherKeys == {32}

AllKeys == LightMoveKeys \cup AddPointKeys \cup AddSpotKeys \cup RemoveKeys
           \cup SelectKeys \cup OtherKeys

\* LightsController.on_key_event_handler: the controller after the event and
\* whether the event was consumed; the names are those a constructor would draw
on_key_event_handler(c, type, key, point_name, spot_name) ==
    IF type # "DOWN" THEN [c |-> c, consumed |-> FALSE]
    ELSE IF key \in LightMoveKeys THEN [c |-> MoveCurrentLightOp(c, key), consumed |-> TRUE]
    ELSE IF key \in AddPointKeys
         THEN [c |-> AddLightOp(c, "PointLight", point_name), consumed |-> TRUE]
    ELSE IF key \in AddSpotKeys
         THEN [c |-> AddLightOp(c, "SpotLight", spot_name), consumed |-> TRUE]
    ELSE IF key \in RemoveKeys THEN [c |-> RemoveCurrentLightOp(c), consumed |-> TRUE]
    ELSE IF key \in SelectKeys THEN [c |-> c, consumed |-> TRUE]
    ELSE [c |-> c, consumed |-> FALSE]

\* the operation a key event stands for
KeyOp(type, key) ==
    IF type # "DOWN" THEN "key_up"
    ELSE IF key \in AddPointKeys \cup AddSpotKeys THEN "add"
    ELSE IF key \in RemoveKeys THEN "remove"
    ELSE IF key \in LightMoveKeys THEN "move"
    ELSE "key"

\* the window's key callback
KeyEvent ==
    /\ err = ""
    /\ \E type \in EventTypes, key \in AllKeys :
       \E h \in IF type = "DOWN" /\ key \in AddPointKeys \cup AddSpotKeys
                THEN HexSuffixes ELSE {""} :
         LET r == on_key_event_handler(Ctl, type, key, "pl_" \o h, "sl_" \o h)
         IN /\ WithinBounds(r.c)
            /\ Commit(r.c)
            /\ last_op' = Op(KeyOp(type, key),
                             IF type = "DOWN" /\ key \in RemoveKeys /\ current_light # 0
                             THEN objs[current_light].name
                             ELSE IF Len(r.c.objs) > Len(objs)
                             THEN r.c.objs[Len(r.c.objs)].name
                             ELSE "",
                             IF KeyOp(type, key) \in {"add", "remove", "move"} THEN key ELSE 0,
                             r.consumed /\ r.c.err = "")
    /\ UNCHANGED << sun, scene_sun, default_light_position, panels, body >>

\* a destroy that takes the sun out of the scene and returns
SunDestroyRemoves(u, ss, e) ==
    [sun |-> u, scene_sun |-> [ss EXCEPT !.is_set = FALSE, !.enabled = FALSE], err |-> e]

\* Sun.destroy: the raise statement fails before anything is changed
SunDestroyOp(u, ss, e) == [sun |-> u, scene_sun |-> ss, err |-> "TypeError"]

SunDestroy ==
    /\ err = ""
    /\ LET r == SunDestroyOp(sun, scene_sun, err)
       IN /\ sun' = r.sun
          /\ scene_sun' = r.scene_sun
          /\ err' = r.err
    /\ last_op' = Op("sun_destroy", SunName, 0, FALSE)
    /\ ControllerUnchanged
    /\ UNCHANGED << default_light_position, panels, body >>

---------------------------------------------------------------------------
(* main.SMPLPlayground: the Lights / SMPL toggle buttons *)

\* SMPLPlayground._show_lights_menu, e being the Lights button
show_lights_menu(p) ==
    [p EXCEPT !.lights_button_enabled = FALSE, !.smpl_button_enabled = TRUE,
              !.lights_panel_visible = TRUE, !.smpl_panel_visible = FALSE]

\* a _show_smpl_menu that forgets to hide the Lights panel
show_smpl_menu_keeps_lights(p) ==
    [p EXCEPT !.smpl_button_enabled = FALSE, !.lights_button_enabled = TRUE,
              !.smpl_panel_visible = TRUE]

\* SMPLPlayground._show_smpl_menu, e being the SMPL button
show_smpl_menu(p) ==
    [p EXCEPT !.smpl_button_enabled = FALSE, !.lights_button_enabled = TRUE,
              !.lights_panel_visible = FALSE, !.smpl_panel_visible = TRUE]

\* SMPLPlayground._build_gui: both toggle buttons are children of menu_row,
\* menu_row is a child of the Lights panel and nothing changes the visible
\* flag of the row or of a button: the buttons are on screen while the Lights
\* panel is visible
ToggleButtonsShown(p) == p.lights_panel_visible

\* the callback of the Lights button, which runs only while the button is
\* enabled; whether the button is on screen is ToggleButtonsShown
ClickLightsButton ==
    /\ err = ""
    /\ panels.lights_button_enabled
    /\ panels' = show_lights_menu(panels)
    /\ last_op' = Op("show_lights", "", 0, FALSE)
    /\ ControllerUnchanged
    /\ UNCHANGED << sun, scene_sun, default_light_position, err, body >>

ClickSmplButton ==
    /\ err = ""
    /\ panels.smpl_button_enabled
    /\ panels' = show_smpl_menu(panels)
    /\ last_op' = Op("show_smpl", "", 0, FALSE)
    /\ ControllerUnchanged
    /\ UNCHANGED << sun, scene_sun, default_light_position, err, body >>

\* the lights controller and its lights
Next ==
    \/ ClickAddLight
    \/ ClickRemoveLight
    \/ ComboboxSelect
    \/ KeyEvent
    \/ SunDestroy

Spec == Init /\ [][Next]_vars

---------------------------------------------------------------------------
(* The setters of the point and spot lights, called on any light constructed   *)
(* so far (the sliders, checkboxes and color editor of its settings group, or  *)
(* a direct call)                                                              *)

\* a gui.Color (red, green, blue of a ColorEdit) or a plain tuple
ColorInputs ==
    {[is_gui_color |-> g, red |-> c[1], green |-> c[2], blue |-> c[3]] :
        g \in BOOLEAN, c \in {White, Red}}

IntensityInputs == {DEFAULT_INTENSITY, 0}

FalloffInputs == {DEFAULT_FALLOFF, 0}

YawInputs == {0, 90}

PitchInputs == {0, 30}

ConeAngleInputs == {DEFAULT_CONE_ANGLE, 500}

PositionInputs == {default_light_position, <<10, 0, -10>>}

\* how many fields of the lights differ from what the constructors set
ChangedFields(c) ==
    SumOver([id \in 1..Len(c.objs) |->
        LET o == c.objs[id]
        IN Cardinality({f \in {"color", "intensity", "falloff", "cast_shadow", "position",
                               "yaw", "pitch", "inner_cone_angle", "outer_cone_angle"} :
               o[f] # NewLight(o.type, o.name, default_light_position)[f]})],
        Len(c.objs))

\* how many fields of the sun differ from what its constructor set
ChangedSunFields(u) ==
    Cardinality({f \in {"azimuth_deg", "elevation_deg", "color", "intensity", "enabled",
                        "indirect_light_enable"} : u[f] # NewSun[f]})

\* the size of a run of the setters that has reached c and u
SetterSize(c, u) == Len(c.objs) + ChangedFields(c) + ChangedSunFields(u)

WithinChanged(c) == SetterSize(c, sun) <= MaxSetterSize

LightSetterDone(c, id, op) ==
    /\ WithinChanged(c)
    /\ Commit(c)
    /\ last_op' = Op(op, objs[id].name, id, FALSE)
    /\ UNCHANGED << sun, scene_sun, default_light_position, panels, body >>

SetterAddLight ==
    /\ err = ""
    /\ \E type \in {"PointLight", "SpotLight"} : \E name \in NewLightNames(type) :
         /\ WithinChanged(AddLightOp(Ctl, type, name))
         /\ Commit(AddLightOp(Ctl, type, name))
         /\ last_op' = Op("add", name, 0, FALSE)
    /\ UNCHANGED << sun, scene_sun, default_light_position, panels, body >>

LightSetColor ==
    \E id \in 1..Len(objs), color \in ColorInputs :
        LightSetterDone(SetColor(Ctl, id, color), id, "set_light_color")

LightSetIntensity ==
    \E id \in 1..Len(objs), v \in IntensityInputs :
        LightSetterDone(SetField(Ctl, id, "intensity", v), id, "set")

LightSetPosition ==
    \E id \in 1..Len(objs), v \in PositionInputs :
        LightSetterDone(SetPosition(Ctl, id, v), id, "set")

LightSetFalloff ==
    \E id \in 1..Len(objs), v \in FalloffInputs :
        LightSetterDone(SetField(Ctl, id, "falloff", v), id, "set")

LightSetCastShadow ==
    \E id \in 1..Len(objs), v \in BOOLEAN :
        LightSetterDone(SetField(Ctl, id, "cast_shadow", v), id, "set")

SpotSetYaw ==
    \E id \in 1..Len(objs), v \in YawInputs :
        /\ objs[id].type = "SpotLight"
        /\ LightSetterDone(SetField(Ctl, id, "yaw", v), id, "set")

SpotSetPitch ==
    \E id \in 1..Len(objs), v \in PitchInputs :
        /\ objs[id].type = "SpotLight"
        /\ LightSetterDone(SetField(Ctl, id, "pitch", v), id, "set")

SpotSetInnerConeAngle ==
    \E id \in 1..Len(objs), v \in ConeAngleInputs :
        /\ objs[id].type = "SpotLight"
        /\ LightSetterDone(SetField(Ctl, id, "inner_cone_angle", v), id, "set")

SpotSetOuterConeAngle ==
    \E id \in 1..Len(objs), v \in ConeAngleInputs :
        /\ objs[id].type = "SpotLight"
        /\ LightSetterDone(SetField(Ctl, id, "outer_cone_angle", v), id, "set")

NextLightSetters ==
    \/ SetterAddLight
    \/ LightSetColor
    \/ LightSetIntensity
    \/ LightSetPosition
    \/ LightSetFalloff
    \/ LightSetCastShadow
    \/ SpotSetYaw
    \/ SpotSetPitch
    \/ SpotSetInnerConeAngle
    \/ SpotSetOuterConeAngle

---------------------------------------------------------------------------
(* The sun's setters: the sliders, the color editor and the two checkboxes of  *)
(* Sun.build_gui                                                               *)

AzimuthInputs == {DEFAULT_AZIMUTH, 0, 90}

ElevationInputs == {DEFAULT_ELEVATION, 90}

\* Sun.set_azimuth, set_elevation, set_enabled, Light.set_intensity: the field,
\* then _update
SunSetField(u, ss, field, value) ==
    LET u1 == [u EXCEPT ![field] = value]
    IN [sun |-> u1, scene_sun |-> SunUpdate(ss, u1)]

\* Sun.set_indirect_light_enabled: the field, then Scene.enable_indirect_light
SunSetIndirect(u, ss, value) ==
    [sun |-> [u EXCEPT !.indirect_light_enable = value],
     scene_sun |-> [ss EXCEPT !.indirect_light = value]]

SunSetterDone(r, op, flag) ==
    /\ sun' = r.sun
    /\ scene_sun' = r.scene_sun
    /\ last_op' = Op(op, SunName, 0, flag)
    /\ UNCHANGED << lights, current_light, objs, scene_lights, combobox,
                    remove_button_enabled, options_panel, default_light_position,
                    err, panels, body >>

SunSetAzimuth ==
    \E v \in AzimuthInputs :
        /\ SunSetterDone(SunSetField(sun, scene_sun, "azimuth_deg", v), "set_azimuth", FALSE)
        /\ UNCHANGED scene_geometry

SunSetElevation ==
    \E v \in ElevationInputs :
        /\ SunSetterDone(SunSetField(sun, scene_sun, "elevation_deg", v), "set_elevation", FALSE)
        /\ UNCHANGED scene_geometry

SunSetIntensity ==
    \E v \in IntensityInputs :
        /\ SunSetterDone(SunSetField(sun, scene_sun, "intensity", v), "set_intensity", FALSE)
        /\ UNCHANGED scene_geometry

SunSetEnabled ==
    \E v \in BOOLEAN :
        /\ SunSetterDone(SunSetField(sun, scene_sun, "enabled", v), "set_enabled", v)
        /\ UNCHANGED scene_geometry

SunSetIndirectLightEnabled ==
    \E v \in BOOLEAN :
        /\ SunSetterDone(SunSetIndirect(sun, scene_sun, v), "set_indirect_light_enabled", v)
        /\ UNCHANGED scene_geometry

\* Light.set_color on the sun: the field, the marker's color, then _update
SunSetColor ==
    \E color \in ColorInputs :
        LET m == [sun.marker EXCEPT !.color = AsTuple(color)]
            u == [sun EXCEPT !.color = AsTuple(color), !.marker = m]
        IN /\ SunSetterDone([sun |-> u, scene_sun |-> SunUpdate(scene_sun, u)],
                            "set_color", FALSE)
           /\ scene_geometry' = MarkerUpdate(scene_geometry, m)

NextSun ==
    \/ SunSetAzimuth
    \/ SunSetElevation
    \/ SunSetIntensity
    \/ SunSetEnabled
    \/ SunSetIndirectLightEnabled
    \/ SunSetColor

\* the sun alone, every combination of its settings
SpecSun == Init /\ [][NextSun]_vars

\* the setters of the lights and of the sun together, MaxSetterSize away
\* from the constructors' values
NextSetters ==
    \/ NextLightSetters
    \/ (NextSun /\ SetterSize(Ctl, sun') <= MaxSetterSize)

SpecSetters == Init /\ [][NextSetters]_vars

---------------------------------------------------------------------------
(* A spot light turned through its yaw and pitch sliders *)

\* what the yaw slider delivers: set_limits(MIN_YAW, MAX_YAW), in steps of 10
YawRange == {10 * d : d \in -18..18}

\* what the pitch slider delivers: set_limits(MIN_PITCH, MAX_PITCH), in steps of 10
PitchRange == {10 * d : d \in -9..9}

DirectionAddSpot ==
    /\ err = ""
    /\ Len(objs) = 0
    /\ \E name \in SpotLightNames :
         /\ Commit(AddLightOp(Ctl, "SpotLight", name))
         /\ last_op' = Op("add", name, 0, FALSE)
    /\ UNCHANGED << sun, scene_sun, default_light_position, panels, body >>

DirectionSetYaw ==
    /\ err = ""
    /\ \E id \in 1..Len(objs), v \in YawRange :
         /\ Commit(SetField(Ctl, id, "yaw", v))
         /\ last_op' = Op("set", objs[id].name, id, FALSE)
    /\ UNCHANGED << sun, scene_sun, default_light_position, panels, body >>

DirectionSetPitch ==
    /\ err = ""
    /\ \E id \in 1..Len(objs), v \in PitchRange :
         /\ Commit(SetField(Ctl, id, "pitch", v))
         /\ last_op' = Op("set", objs[id].name, id, FALSE)
    /\ UNCHANGED << sun, scene_sun, default_light_position, panels, body >>

NextDirection ==
    \/ DirectionAddSpot
    \/ DirectionSetYaw
    \/ DirectionSetPitch

\* the direction does not depend on the position: the runs start where the
\* default position is the origin
InitDirection == Init /\ default_light_position = Origin

SpecDirection == InitDirection /\ [][NextDirection]_vars

---------------------------------------------------------------------------
(* The top-level window: the toggle buttons beside the sun's settings *)

NextMain ==
    \/ ClickLightsButton
    \/ ClickSmplButton
    \/ NextSun

SpecMain == Init /\ [][NextMain]_vars

---------------------------------------------------------------------------
(* The body model's operations *)

\* pose sliders given the limits of the betas sliders
PoseSliderInputsOfBetas == {MIN_BETAS_VALUE, MAX_BETAS_VALUE}

\* what a pose slider can deliver: the ends of set_limits(MIN_POSE_VALUE,
\* MAX_POSE_VALUE)
PoseSliderInputs == {MIN_POSE_VALUE, MAX_POSE_VALUE}

\* what a betas slider can deliver: the ends of set_limits(MIN_BETAS_VALUE,
\* MAX_BETAS_VALUE)
BetasSliderInputs == {MIN_BETAS_VALUE, MAX_BETAS_VALUE}

ModelColorInputs ==
    {[is_gui_color |-> g, red |-> c[1], green |-> c[2], blue |-> c[3]] :
        g \in BOOLEAN, c \in {DEFAULT_SMPL_COLOR, Red}}

\* whether SMPL(...) can load: the model that is loaded can be loaded again and
\* the three genders of an adult have their files; for any other gender or age
\* it depends on the model path given, and both outcomes are followed
SmplLoads(b) ==
    IF b.smpl = [gender |-> b.gender, age |-> b.age] THEN {TRUE}
    ELSE IF b.gender \in SmplGenders /\ b.age = "adult" THEN {TRUE}
    ELSE BOOLEAN

\* Model._reload, then Model._update; a failed load raises before either
ReloadOp(b, sg, full_reload, loads) ==
    IF loads
    THEN LET b1 == Reloaded(b, full_reload)
         IN [body |-> b1, scene_geometry |-> ModelUpdate(sg, b1), err |-> ""]
    ELSE [body |-> b, scene_geometry |-> sg, err |-> "SMPLError"]

\* Model.set_gender
set_gender(b, sg, gender, loads) == ReloadOp([b EXCEPT !.gender = gender], sg, FALSE, loads)

\* Model.set_age
set_age(b, sg, age, loads) == ReloadOp([b EXCEPT !.age = age], sg, FALSE, loads)

\* the callback of the gender radio button: set_gender(selected_value.lower())
on_gender_selection_changed(b, sg, i, loads) ==
    set_gender([b EXCEPT !.gender_selected_index = i], sg, GenderItems[i + 1], loads)

\* the callback of the age radio button: set_gender(selected_value.lower())
on_age_selection_changed(b, sg, i, loads) ==
    set_gender([b EXCEPT !.age_selected_index = i], sg, AgeItems[i + 1], loads)

\* a set_color that stores the color and does not redraw
set_color_without_update(b, sg, color) ==
    [body |-> [b EXCEPT !.color = AsTuple(color)], scene_geometry |-> sg, err |-> ""]

\* Model.set_color
set_color(b, sg, color) ==
    LET b1 == [b EXCEPT !.color = AsTuple(color)]
    IN [body |-> b1, scene_geometry |-> ModelUpdate(sg, b1), err |-> ""]

\* Model._on_pose_param_changed
on_pose_param_changed(b, sg, value, index) ==
    IF ~TensorIndexOk(b.pose, index)
    THEN [body |-> b, scene_geometry |-> sg, err |-> "IndexError"]
    ELSE LET b1 == [b EXCEPT !.pose = TensorSet(@, index, value)]
         IN [body |-> b1, scene_geometry |-> ModelUpdate(sg, b1), err |-> ""]

\* Model._on_betas_param_changed
on_betas_param_changed(b, sg, value, index) ==
    IF ~TensorIndexOk(b.betas, index)
    THEN [body |-> b, scene_geometry |-> sg, err |-> "IndexError"]
    ELSE LET b1 == [b EXCEPT !.betas = TensorSet(@, index, value)]
         IN [body |-> b1, scene_geometry |-> ModelUpdate(sg, b1), err |-> ""]

\* Model._on_reset_model_click: the full reload, then the k-th slider of each
\* group gets the k-th default
\* a reset that reloads the model and leaves the sliders where they are
on_reset_model_click_keeps_sliders(b, sg, loads) == ReloadOp(b, sg, TRUE, loads)

on_reset_model_click(b, sg, loads) ==
    LET r == ReloadOp(b, sg, TRUE, loads)
    IN IF r.err # "" THEN r
       ELSE [r EXCEPT !.body.pose_sliders =
                          [k \in 1..Len(b.pose_sliders) |-> DEFAULT_SMPL_POSE[k]],
                      !.body.betas_sliders = [k \in 1..Len(b.betas_sliders) |-> 0]]

\* Model.build_gui: the flag, the radio buttons on their first items, one pose
\* slider for each of the three values of each group and ten betas sliders,
\* showing the current values
build_gui(b) ==
    [b EXCEPT !.is_gui_built = TRUE,
              !.gender_selected_index = 0,
              !.age_selected_index = 0,
              !.pose_sliders = [k \in DOMAIN PoseSliderIndices |-> b.pose[PoseSliderIndices[k] + 1]],
              !.betas_sliders = [k \in DOMAIN BetasSliderIndices |-> b.betas[BetasSliderIndices[k] + 1]]]

\* how many settings of the body model differ from their defaults
BodyDirty(b) ==
    Cardinality({i \in 1..Len(b.pose) : b.pose[i] # DEFAULT_SMPL_POSE[i]})
    + Cardinality({i \in 1..Len(b.betas) : b.betas[i] # 0})
    + (IF \/ b.gender # "neutral"
          \/ b.age # "adult"
          \/ b.gender_selected_index # 0
          \/ b.age_selected_index # 0
       THEN 1 ELSE 0)
    + (IF b.color # DEFAULT_SMPL_COLOR THEN 1 ELSE 0)

\* the sliders a change of which stays within MaxDirty: every slider, or at
\* MaxDirty those that are away from their defaults already
MovableSliders(b, sliders, defaults) ==
    {k \in DOMAIN sliders : BodyDirty(b) < MaxDirty \/ sliders[k] # defaults[k]}

BodyDone(r, op, name, num) ==
    /\ BodyDirty(r.body) <= MaxDirty
    /\ body' = r.body
    /\ scene_geometry' = r.scene_geometry
    /\ err' = r.err
    /\ last_op' = Op(op, name, num, FALSE)
    /\ UNCHANGED << lights, current_light, objs, sun, scene_lights, scene_sun, combobox,
                    remove_button_enabled, options_panel, default_light_position, panels >>

ModelBuildGui ==
    /\ err = ""
    /\ ~body.is_gui_built
    /\ BodyDone([body |-> build_gui(body), scene_geometry |-> scene_geometry, err |-> ""],
                "build_gui", "", 0)

GenderSelect ==
    /\ err = ""
    /\ body.is_gui_built
    /\ \E i \in 0..(Len(GenderItems) - 1) :
       \E loads \in SmplLoads([body EXCEPT !.gender = GenderItems[i + 1]]) :
         BodyDone(on_gender_selection_changed(body, scene_geometry, i, loads),
                  "gender_select", GenderItems[i + 1], i)

AgeSelect ==
    /\ err = ""
    /\ body.is_gui_built
    /\ \E i \in 0..(Len(AgeItems) - 1) :
       \E loads \in SmplLoads([body EXCEPT !.gender = AgeItems[i + 1]]) :
         BodyDone(on_age_selection_changed(body, scene_geometry, i, loads),
                  "age_select", AgeItems[i + 1], i)

\* a direct call of Model.set_age (no widget calls it)
ModelSetAge ==
    /\ err = ""
    /\ \E age \in {"adult", "kid"} :
       \E loads \in SmplLoads([body EXCEPT !.age = age]) :
         BodyDone(set_age(body, scene_geometry, age, loads), "set_age", age, 0)

ModelSetColor ==
    /\ err = ""
    /\ body.is_gui_built
    /\ \E color \in ModelColorInputs :
         BodyDone(set_color(body, scene_geometry, color), "set_color", "", 0)

PoseSliderChange ==
    /\ err = ""
    /\ body.is_gui_built
    /\ \E k \in MovableSliders(body, body.pose_sliders, DEFAULT_SMPL_POSE),
          v \in PoseSliderInputs :
         BodyDone(on_pose_param_changed([body EXCEPT !.pose_sliders[k] = v],
                                        scene_geometry, v, PoseSliderIndices[k]),
                  "pose_slider", "", PoseSliderIndices[k])

BetasSliderChange ==
    /\ err = ""
    /\ body.is_gui_built
    /\ \E k \in MovableSliders(body, body.betas_sliders, ZeroBetas),
          v \in BetasSliderInputs :
         BodyDone(on_betas_param_changed([body EXCEPT !.betas_sliders[k] = v],
                                         scene_geometry, v, BetasSliderIndices[k]),
                  "betas_slider", "", BetasSliderIndices[k])

ResetModelClick ==
    /\ err = ""
    /\ body.is_gui_built
    /\ \E loads \in SmplLoads(body) :
         BodyDone(on_reset_model_click(body, scene_geometry, loads), "reset", "", 0)

NextBody ==
    \/ ModelBuildGui
    \/ GenderSelect
    \/ AgeSelect
    \/ ModelSetAge
    \/ ModelSetColor
    \/ PoseSliderChange
    \/ BetasSliderChange
    \/ ResetModelClick

\* the body model reads nothing of the lights: its runs start where the
\* lights' default position is the origin
InitBody == Init /\ default_light_position = Origin

SpecBody == InitBody /\ [][NextBody]_vars

---------------------------------------------------------------------------
(* Claims about the lights controller, checked under Spec *)

\* the name of a light object
NameOf(id) == objs[id].name

\* C1: in every reachable state there is no selected light, or the selected
\* light is a light of the lights mapping (never one that has been removed).
C1_SelectedLightIsInMapping ==
    current_light # 0 => Has(lights, NameOf(current_light))

\* C2: once the remove operation has run on a light, the light is absent from
\* the lights mapping, and in every later state a light that was created and
\* is no longer in the mapping has neither its light entry nor its marker
\* geometry in the scene.
C2_RemovedLightIsGone ==
    /\ (last_op.op = "remove" /\ last_op.name # "" /\ err = "") =>
          ~Has(lights, last_op.name)
    /\ \A id \in 1..Len(objs) :
          ~Has(lights, NameOf(id)) =>
              /\ NameOf(id) \notin DOMAIN scene_lights
              /\ MarkerName(NameOf(id)) \notin DOMAIN scene_geometry

\* C4: the sun stays in the scene whatever is added, removed, selected or
\* keyed; it is never an entry of the lights mapping, never the selected light
\* (so never what remove works on); a call of its destroy raises and leaves the
\* sun and the scene's sun as they were.
C4_SunIsPermanent ==
    /\ [](/\ scene_sun.is_set
          /\ scene_sun.enabled = sun.enabled
          /\ MarkerName(SunName) \in DOMAIN scene_geometry
          /\ ~Has(lights, SunName)
          /\ \A id \in 1..Len(objs) : NameOf(id) # SunName
          /\ (last_op.op = "sun_destroy" => err # ""))
    /\ [][last_op'.op = "sun_destroy" =>
            /\ sun' = sun
            /\ scene_sun' = scene_sun
            /\ scene_geometry' = scene_geometry
            /\ lights' = lights]_vars

\* C4 witness: destroy has been called on the sun while a light is selected
C4_Witness ==
    /\ last_op.op = "sun_destroy"
    /\ err = "TypeError"
    /\ current_light # 0
    /\ Len(lights) > 0

\* C6: every add operation adds exactly one new entry to the lights mapping
\* (one more light, every earlier entry kept), registers the new light in the
\* scene and makes the new light the selected light.
C6_AddCreatesOneLight ==
    [][last_op'.op = "add" =>
        /\ Len(lights') = Len(lights) + 1
        /\ SubSeq(lights', 1, Len(lights)) = lights
        /\ lights'[Len(lights')] = [name |-> last_op'.name, obj |-> Len(objs')]
        /\ last_op'.name \in DOMAIN scene_lights'
        /\ scene_lights'[last_op'.name] = LightParams(objs'[Len(objs')])
        /\ current_light' = Len(objs')]_vars

\* C7: for every light that exists, from its construction on, the marker's
\* position (the field and the rendered geometry) equals the light's position.
C7_MarkerAtLightPosition ==
    \A i \in 1..Len(lights) :
        LET o == objs[lights[i].obj]
        IN /\ o.marker.position = o.position
           /\ scene_geometry[o.marker.name].position = o.position

---------------------------------------------------------------------------
(* Claims about the setters *)

SunSetterOps == {"set_azimuth", "set_elevation", "set_intensity", "set_color", "set_enabled"}

\* C5: set_enabled(v) leaves the scene's sun switched as v says, and no call of
\* set_azimuth, set_elevation, set_intensity, set_color or
\* set_indirect_light_enabled changes the switch: a disabled sun stays
\* disabled and an enabled sun stays enabled until set_enabled is called.
C5_SunStaysAsSwitched ==
    /\ [](last_op.op = "set_enabled" => scene_sun.enabled = last_op.flag)
    /\ [][last_op'.op \in {"set_azimuth", "set_elevation", "set_intensity", "set_color",
                           "set_indirect_light_enabled"}
            => scene_sun'.enabled = scene_sun.enabled]_vars

\* C5 witness: the sun has been disabled and another setter has run since
C5_Witness ==
    /\ ~scene_sun.enabled
    /\ ~sun.enabled
    /\ last_op.op = "set_azimuth"
    /\ sun.azimuth_deg # DEFAULT_AZIMUTH

\* C8: when a setter of a point, spot or sun light has returned, the scene
\* holds one entry under the light's name and its parameters are the light's
\* current fields (for the sun: direction, color, intensity and switch).
C8_SetterUpdatesScene ==
    /\ last_op.op \in {"set", "set_light_color"} =>
        /\ last_op.name \in DOMAIN scene_lights
        /\ scene_lights[last_op.name] = LightParams(objs[last_op.num])
    /\ last_op.op \in SunSetterOps =>
        /\ scene_sun.is_set
        /\ scene_sun.direction = sphere_dir(sun.azimuth_deg, sun.elevation_deg)
        /\ scene_sun.color = sun.color
        /\ scene_sun.intensity = sun.intensity
        /\ scene_sun.enabled = sun.enabled

\* C8 witness: set_yaw has turned a spot light and the scene's entry points
\* the new way
C8_Witness ==
    /\ last_op.op = "set"
    /\ objs[last_op.num].type = "SpotLight"
    /\ objs[last_op.num].yaw = 90
    /\ scene_lights[last_op.name].direction = yaw_pitch_to_direction(90, 0)
    /\ scene_lights[last_op.name].direction # yaw_pitch_to_direction(0, 0)

---------------------------------------------------------------------------
(* Claims about the window's panels, checked under SpecMain *)

---------------------------------------------------------------------------
(* Claims about the body model, checked under SpecBody *)

\* C9: a choice in the age selector sets the model's age to the chosen value
\* and leaves its gender unchanged, a choice in the gender selector sets the
\* gender to the chosen value and leaves the age unchanged; the gender is
\* always one of neutral/male/female and the age one of adult/kid.
C9_SelectorsSetTheirOwnField ==
    /\ [](body.gender \in {"neutral", "male", "female"} /\ body.age \in {"adult", "kid"})
    /\ [][last_op'.op = "age_select" =>
            body'.age = last_op'.name /\ body'.gender = body.gender]_vars
    /\ [][last_op'.op = "gender_select" =>
            body'.gender = last_op'.name /\ body'.age = body.age]_vars

\* C10: the pose vector has exactly 72 values and the betas vector exactly 10,
\* there are 24 * 3 pose sliders with indices in 0..71 and 10 betas sliders
\* with indices in 0..9, and no slider change fails on its index.
C10_VectorSizesAndSliderIndices ==
    /\ Len(body.pose) = 72
    /\ Len(body.betas) = 10
    /\ Len(_GUI_MODEL_PARAMS_GROUPS) = 24
    /\ Len(PoseSliderIndices) = 72
    /\ \A k \in DOMAIN PoseSliderIndices : PoseSliderIndices[k] \in 0..71
    /\ Len(BetasSliderIndices) = 10
    /\ \A k \in DOMAIN BetasSliderIndices : BetasSliderIndices[k] \in 0..9
    /\ body.is_gui_built =>
          /\ Len(body.pose_sliders) = 72
          /\ Len(body.betas_sliders) = 10
    /\ err # "IndexError"

\* C10 witness: the last pose slider has written the last value of the pose
C10_Witness ==
    /\ last_op.op = "pose_slider"
    /\ last_op.num = 71
    /\ body.pose[72] = MAX_POSE_VALUE
    /\ err = ""

\* C11: a pose slider change with value v at index i sets pose element i to v
\* and leaves every other pose element, every beta, the gender, the age and
\* the color unchanged; a beta slider change at index j sets beta j and leaves
\* every other beta and the whole pose unchanged; distinct sliders are bound
\* to distinct indices.
C11_SliderChangesOneElement ==
    /\ [](/\ \A k1, k2 \in DOMAIN PoseSliderIndices :
                k1 # k2 => PoseSliderIndices[k1] # PoseSliderIndices[k2]
          /\ \A k1, k2 \in DOMAIN BetasSliderIndices :
                k1 # k2 => BetasSliderIndices[k1] # BetasSliderIndices[k2])
    /\ [][last_op'.op = "pose_slider" =>
            \E k \in DOMAIN body.pose_sliders :
                /\ PoseSliderIndices[k] = last_op'.num
                /\ body'.pose_sliders[k] \in PoseSliderInputs
                /\ body'.pose = [body.pose EXCEPT ![last_op'.num + 1] = body'.pose_sliders[k]]
                /\ body'.betas = body.betas
                /\ body'.gender = body.gender
                /\ body'.age = body.age
                /\ body'.color = body.color]_vars
    /\ [][last_op'.op = "betas_slider" =>
            \E k \in DOMAIN body.betas_sliders :
                /\ BetasSliderIndices[k] = last_op'.num
                /\ body'.betas_sliders[k] \in BetasSliderInputs
                /\ body'.betas = [body.betas EXCEPT ![last_op'.num + 1] = body'.betas_sliders[k]]
                /\ body'.pose = body.pose]_vars

\* C11 witness: the second pose slider has written the second pose element,
\* the elements beside it at their defaults
C11_Witness ==
    /\ last_op.op = "pose_slider"
    /\ last_op.num = 1
    /\ body.pose[2] = MIN_POSE_VALUE
    /\ body.pose[1] = DEFAULT_SMPL_POSE[1]
    /\ body.pose[3] = DEFAULT_SMPL_POSE[3]

\* C12: after every change of the body model (pose slider, beta slider, color,
\* gender, age, reset) the scene holds a geometry under the model's name, and
\* it is the mesh of the model's current betas, pose (orientation and body
\* pose) and color, painted and with the material of that color.
C12_MeshFollowsModel ==
    /\ ModelName \in DOMAIN scene_geometry
    /\ scene_geometry[ModelName].betas = body.betas
    /\ scene_geometry[ModelName].global_orient = SubSeq(body.pose, 1, 3)
    /\ scene_geometry[ModelName].body_pose = SubSeq(body.pose, 4, Len(body.pose))
    /\ scene_geometry[ModelName].color = body.color
    /\ scene_geometry[ModelName].base_color = body.color
    /\ err = "" => scene_geometry[ModelName].smpl = [gender |-> body.gender, age |-> body.age]

\* C12 witness: the color has been changed and the mesh is of the new color
C12_Witness ==
    /\ last_op.op = "set_color"
    /\ body.color = Red
    /\ scene_geometry[ModelName].color = Red

\* C13: in every state reachable through slider changes and resets every pose
\* value lies in [MIN_POSE_VALUE, MAX_POSE_VALUE] and every beta in
\* [MIN_BETAS_VALUE, MAX_BETAS_VALUE], the default pose and the zero betas
\* that a reset restores included.
C13_ValuesWithinSliderLimits ==
    /\ \A i \in 1..Len(body.pose) : body.pose[i] \in MIN_POSE_VALUE..MAX_POSE_VALUE
    /\ \A i \in 1..Len(body.betas) : body.betas[i] \in MIN_BETAS_VALUE..MAX_BETAS_VALUE
    /\ \A i \in 1..Len(DEFAULT_SMPL_POSE) :
          DEFAULT_SMPL_POSE[i] \in MIN_POSE_VALUE..MAX_POSE_VALUE
    /\ \A i \in 1..Len(ZeroBetas) : ZeroBetas[i] \in MIN_BETAS_VALUE..MAX_BETAS_VALUE
    /\ \A k \in 1..Len(body.pose_sliders) :
          body.pose_sliders[k] \in MIN_POSE_VALUE..MAX_POSE_VALUE
    /\ \A k \in 1..Len(body.betas_sliders) :
          body.betas_sliders[k] \in MIN_BETAS_VALUE..MAX_BETAS_VALUE

\* C13 witness: a pose slider has been put at the upper end of its range
C13_Witness ==
    /\ last_op.op = "pose_slider"
    /\ body.pose[last_op.num + 1] = MAX_POSE_VALUE
    /\ body.pose[last_op.num + 1] # DEFAULT_SMPL_POSE[last_op.num + 1]

\* C14: the forward call takes the 72-element pose apart into the global
\* orientation, elements 0..2, and the body pose, elements 3..71 (69 values):
\* the two are disjoint, cover every element once and keep the order (the
\* orientation followed by the body pose is the pose); the betas are passed
\* unchanged.
C14_PoseSlicesPartition ==
    LET g == scene_geometry[ModelName]
    IN /\ Len(g.global_orient) = 3
       /\ Len(g.body_pose) = 69
       /\ \A i \in 0..2 : g.global_orient[i + 1] = body.pose[i + 1]
       /\ \A i \in 3..71 : g.body_pose[i - 3 + 1] = body.pose[i + 1]
       /\ g.global_orient \o g.body_pose = body.pose
       /\ g.betas = body.betas

\* C14 witness: the last element of the orientation has been changed, the
\* first of the body pose has not
C14_Witness ==
    /\ last_op.op = "pose_slider"
    /\ last_op.num = 2
    /\ scene_geometry[ModelName].global_orient[3] = MAX_POSE_VALUE
    /\ scene_geometry[ModelName].body_pose[1] = DEFAULT_SMPL_POSE[4]

---------------------------------------------------------------------------
(* Claims about the keyboard, checked under Spec *)

\* what each move key is to add to a position
MoveKeyDelta ==
    [k \in LightMoveKeys |->
        CASE k = 263 -> << 0 - LIGHT_MOVE_STEP, 0, 0 >>
          [] k = 264 -> << LIGHT_MOVE_STEP, 0, 0 >>
          [] k = 265 -> << 0, LIGHT_MOVE_STEP, 0 >>
          [] k = 266 -> << 0, 0 - LIGHT_MOVE_STEP, 0 >>
          [] k = 270 -> << 0, 0, 0 - LIGHT_MOVE_STEP >>
          [] k = 271 -> << 0, 0, LIGHT_MOVE_STEP >>]

OppositeKey == [k \in LightMoveKeys |->
                   CASE k = 263 -> 264 [] k = 264 -> 263
                     [] k = 265 -> 266 [] k = 266 -> 265
                     [] k = 270 -> 271 [] k = 271 -> 270]

\* a light of the mapping is the selected light
LightIsSelected == current_light # 0 /\ Has(lights, NameOf(current_light))

\* C15: each move key changes exactly one coordinate of the selected light's
\* position by exactly LIGHT_MOVE_STEP (left and right the first, up and down
\* the second, page-up and page-down the third) and leaves the other two
\* coordinates and every other light unchanged; opposite keys cancel each
\* other; with no light selected a move key changes nothing.
C15_MoveKeysMoveSelectedLight ==
    /\ [][last_op'.op = "move" =>
            IF LightIsSelected
            THEN /\ objs'[current_light].position =
                       [i \in 1..3 |-> objs[current_light].position[i]
                                         + MoveKeyDelta[last_op'.num][i]]
                 /\ \A id \in 1..Len(objs) : id # current_light => objs'[id] = objs[id]
                 /\ Len(objs') = Len(objs)
                 /\ lights' = lights
                 /\ current_light' = current_light
            ELSE /\ objs' = objs
                 /\ lights' = lights
                 /\ current_light' = current_light
                 /\ scene_lights' = scene_lights
                 /\ scene_geometry' = scene_geometry]_vars
    /\ [](\A id \in 1..Len(objs), k \in LightMoveKeys :
             Moved(Moved(objs[id].position, k), OppositeKey[k]) = objs[id].position)

\* C15 witness: an arrow key has moved the selected light of the mapping
C15_Witness ==
    /\ last_op.op = "move"
    /\ last_op.num = KEY_PAGE_UP
    /\ LightIsSelected
    /\ objs[current_light].position[3] = default_light_position[3] + LIGHT_MOVE_STEP

\* what a click on the "Remove light (D)" button does: nothing while the
\* button is disabled
RemoveClickEffect(c) == IF c.remove_button_enabled THEN RemoveCurrentLightOp(c) ELSE c

\* C16: a key-down event for A (either case) leaves the controller as a click
\* on "Add point light (A)" does, S as "Add spot light (S)", D as "Remove
\* light (D)", and the handler returns that the event was consumed; an event
\* that is not a key-down changes no state and is returned as not consumed.
C16_KeysEquivalentToButtons ==
    /\ [][(last_op'.op = "add" /\ last_op'.num \in AddPointKeys) =>
            /\ Ctl' = AddLightOp(Ctl, "PointLight", last_op'.name)
            /\ last_op'.flag]_vars
    /\ [][(last_op'.op = "add" /\ last_op'.num \in AddSpotKeys) =>
            /\ Ctl' = AddLightOp(Ctl, "SpotLight", last_op'.name)
            /\ last_op'.flag]_vars
    /\ [][(last_op'.op = "remove" /\ last_op'.num \in RemoveKeys) =>
            /\ Ctl' = RemoveClickEffect(Ctl)
            /\ last_op'.flag]_vars
    /\ [][last_op'.op = "key_up" =>
            /\ Ctl' = Ctl
            /\ sun' = sun /\ scene_sun' = scene_sun /\ body' = body /\ panels' = panels
            /\ ~last_op'.flag]_vars

---------------------------------------------------------------------------
(* Claims about the lights' colors, checked under SpecSetters *)

\* C17: after set_color(c) on any light, c given as a tuple or as a gui color,
\* the light's color, its marker's color and the base color of the marker's
\* material are the same c, and the scene holds the marker's geometry under
\* the marker's name.
C17_MarkerMirrorsColor ==
    /\ \A id \in 1..Len(objs) : objs[id].marker.color = objs[id].color
    /\ last_op.op = "set_light_color" =>
          LET o == objs[last_op.num]
          IN /\ o.color \in {White, Red}
             /\ o.marker.name \in DOMAIN scene_geometry
             /\ scene_geometry[o.marker.name].color = o.color
             /\ scene_geometry[o.marker.name].base_color = o.color
    /\ sun.marker.color = sun.color
    /\ sun.marker.name \in DOMAIN scene_geometry
    /\ scene_geometry[sun.marker.name].color = sun.color
    /\ scene_geometry[sun.marker.name].base_color = sun.color

\* C17 witness: set_color has made a light red, and its marker with it
C17_Witness ==
    /\ last_op.op = "set_light_color"
    /\ objs[last_op.num].color = Red
    /\ objs[last_op.num].marker.color = Red
    /\ scene_geometry[objs[last_op.num].marker.name].base_color = Red

---------------------------------------------------------------------------
(* Claims about the direction conversions, checked under SpecDirection *)

\* C18: for every yaw in (-180, 180] and pitch in (-90, 90),
\* direction_to_yaw_pitch(yaw_pitch_to_direction(yaw, pitch)) is (yaw, pitch)
\* and the direction has unit length (to the rounding of thousandths), and
\* sphere_dir(a, e) equals yaw_pitch_to_direction(a, e) for every a and e.
C18_DirectionRoundTrip ==
    /\ \A id \in 1..Len(objs) :
          LET o == objs[id]
              d == scene_lights[o.name].direction
              n == d[1] * d[1] + d[2] * d[2] + d[3] * d[3]
          IN /\ d = yaw_pitch_to_direction(o.yaw, o.pitch)
             /\ n >= 995000 /\ n <= 1005000
             /\ (o.yaw > -180 /\ o.pitch > -90 /\ o.pitch < 90) =>
                    direction_to_yaw_pitch(d) = << o.yaw, o.pitch >>
             /\ sphere_dir(o.yaw, o.pitch) = d
    /\ \A a \in {10 * k : k \in 0..36}, e \in {10 * k : k \in 0..36} :
          sphere_dir(a, e) = yaw_pitch_to_direction(a, e)

\* C18 witness: a spot light turned to yaw 180 and pitch -80, both at the ends
\* of the claim's range on the grid
C18_Witness ==
    /\ Len(objs) = 1
    /\ objs[1].yaw = 180
    /\ objs[1].pitch = -80
    /\ direction_to_yaw_pitch(scene_lights[objs[1].name].direction) = << 180, -80 >>

---------------------------------------------------------------------------
(* Claims about removing with nothing left to remove, checked under Spec *)

\* C19: a remove (button click or D key) never fails, and a remove requested
\* while the mapping is empty raises no error and leaves the mapping, the
\* selection and the scene unchanged.
C19_RemoveNeverFails ==
    [][ last_op'.op = "remove" =>
          /\ err' = ""
          /\ Len(lights) = 0 =>
                /\ lights' = lights
                /\ current_light' = current_light
                /\ scene_lights' = scene_lights
                /\ scene_geometry' = scene_geometry ]_vars

---------------------------------------------------------------------------
(* Claims about the selection highlight, checked under Spec *)

\* C20: in every state reached by add, remove and select, a light of the
\* mapping has its marker at SELECTED_LIGHT_MARKER_RADIUS if and only if it is
\* the selected light, and every other light of the mapping has its marker at
\* the default radius.
C20_HighlightIsSelection ==
    \A i \in 1..Len(lights) :
        LET id == lights[i].obj
        IN /\ objs[id].marker.radius = SELECTED_LIGHT_MARKER_RADIUS <=> id = current_light
           /\ id # current_light => objs[id].marker.radius = DEFAULT_RADIUS

\* C20 witness: two lights, the first one selected through the combobox after
\* the second was added: the first is highlighted, the second is back at the
\* default radius
C20_Witness ==
    /\ Len(lights) = 2
    /\ last_op.op = "select"
    /\ current_light = lights[1].obj
    /\ objs[lights[1].obj].marker.radius = SELECTED_LIGHT_MARKER_RADIUS
    /\ objs[lights[2].obj].marker.radius = DEFAULT_RADIUS
    /\ objs[lights[1].obj].name # objs[lights[2].obj].name

---------------------------------------------------------------------------
(* Claims about the widgets of the light controls, checked under Spec *)

\* C21: in every state reached by add and remove, the lights combobox is
\* enabled, the remove button is enabled and the light-controls panel is
\* visible if and only if the lights mapping is non-empty; all three are off
\* initially and after the last light has been removed.
C21_WidgetsFollowMapping ==
    /\ combobox.enabled <=> Len(lights) > 0
    /\ remove_button_enabled <=> Len(lights) > 0
    /\ options_panel.visible <=> Len(lights) > 0

\* C21 witness: the last light has been removed and the three widgets are off
\* again
C21_Witness ==
    /\ last_op.op = "remove"
    /\ Len(objs) > 0
    /\ Len(lights) = 0
    /\ ~combobox.enabled
    /\ ~remove_button_enabled
    /\ ~options_panel.visible

\* how many times the settings group of light id is a child of the panel
GroupCount(children, id) == Cardinality({k \in 1..Len(children) : children[k] = id})

\* C22: in every state reached by add, remove and select, a light of the
\* mapping has its settings GUI built if and only if it is the selected light,
\* and no light's settings group is added to the light-controls panel a second
\* time unless its GUI was destroyed in between.
C22_OnlySelectedLightHasGui ==
    /\ [](\A i \in 1..Len(lights) :
             objs[lights[i].obj].is_gui_built <=> lights[i].obj = current_light)
    /\ [][\A id \in 1..Len(objs') :
             GroupCount(options_panel'.children, id) > GroupCount(options_panel.children, id) =>
                /\ GroupCount(options_panel'.children, id)
                      = GroupCount(options_panel.children, id) + 1
                /\ id > Len(objs) \/ ~objs[id].is_gui_built]_vars

\* C23: after the selected light is removed while other lights remain, the
\* selected light is the first remaining light of the mapping in insertion
\* order; after the last light is removed there is no selected light.
C23_RemoveSelectsFirstRemaining ==
    [][(last_op'.op = "remove" /\ LightIsSelected) =>
          IF Len(lights') > 0
          THEN current_light' = lights'[1].obj
          ELSE current_light' = 0]_vars

\* C24: after every add or remove the combobox items are exactly the names of
\* the lights of the mapping, in insertion order and without duplicates, and
\* when a light is selected the combobox's selected index is the index of the
\* selected light's name.
C24_ComboboxMirrorsMapping ==
    /\ combobox.items = Keys(lights)
    /\ \A a, b \in 1..Len(combobox.items) :
          a # b => combobox.items[a] # combobox.items[b]
    /\ LightIsSelected =>
          /\ combobox.selected_index + 1 \in 1..Len(combobox.items)
          /\ combobox.items[combobox.selected_index + 1] = NameOf(current_light)

\* C24 witness: the second of two lights was removed: the combobox shows the
\* name of the first, which is selected, at index 0
C24_Witness ==
    /\ last_op.op = "remove"
    /\ Len(objs) = 2
    /\ Len(lights) = 1
    /\ combobox.items = << objs[1].name >>
    /\ LightIsSelected
    /\ current_light = 1
    /\ combobox.selected_index = 0
    /\ objs[2].name # objs[1].name

---------------------------------------------------------------------------
(* Claims about the reset of the body model, checked under SpecBody *)

\* C25: after a reset, whatever slider changes preceded it, the pose equals
\* DEFAULT_SMPL_POSE element by element, every beta is 0, pose slider k shows
\* DEFAULT_SMPL_POSE[k] and every betas slider shows 0, the gender, age and
\* color are unchanged, and a second reset changes nothing further.
C25_ResetRestoresDefaults ==
    [][last_op'.op = "reset" =>
          /\ err' = ""
          /\ Len(body'.pose) = Len(DEFAULT_SMPL_POSE)
          /\ \A i \in 1..Len(DEFAULT_SMPL_POSE) : body'.pose[i] = DEFAULT_SMPL_POSE[i]
          /\ Len(body'.betas) = NUM_BETAS
          /\ \A i \in 1..NUM_BETAS : body'.betas[i] = 0
          /\ \A k \in DOMAIN body'.pose_sliders :
                body'.pose_sliders[k] = DEFAULT_SMPL_POSE[k]
          /\ \A k \in DOMAIN body'.betas_sliders : body'.betas_sliders[k] = 0
          /\ DOMAIN body'.pose_sliders = DOMAIN body.pose_sliders
          /\ DOMAIN body'.betas_sliders = DOMAIN body.betas_sliders
          /\ body'.gender = body.gender
          /\ body'.age = body.age
          /\ body'.color = body.color
          /\ \A loads \in SmplLoads(body') :
                LET r == on_reset_model_click(body', scene_geometry', loads)
                IN /\ r.err = ""
                   /\ r.body = body'
                   /\ r.scene_geometry = scene_geometry']_vars

\* C25 witness: a reset of the male model: pose, betas and sliders at their
\* defaults, slider 23 at a default that is not 0, the gender kept
C25_Witness ==
    /\ last_op.op = "reset"
    /\ body.is_gui_built
    /\ body.pose = DEFAULT_SMPL_POSE
    /\ body.betas = ZeroBetas
    /\ Len(body.pose_sliders) = Len(DEFAULT_SMPL_POSE)
    /\ body.pose_sliders[23] = DEFAULT_SMPL_POSE[23]
    /\ DEFAULT_SMPL_POSE[23] # 0
    /\ body.gender = "male"

---------------------------------------------------------------------------
(* Claims about reaching the two side panels, checked under SpecMain *)

\* C26: in every state reached by toggle clicks the toggle button that leads
\* to the hidden panel is on screen and enabled, so that the user can make
\* the Lights panel and the SMPL panel visible, and exactly one of the two
\* toggle buttons is enabled, the one for the hidden panel.
C26_BothPanelsReachable ==
    /\ panels.lights_button_enabled # panels.smpl_button_enabled
    /\ panels.lights_button_enabled <=> ~panels.lights_panel_visible
    /\ panels.smpl_button_enabled <=> ~panels.smpl_panel_visible
    /\ ~panels.lights_panel_visible => ToggleButtonsShown(panels)
    /\ ~panels.smpl_panel_visible => ToggleButtonsShown(panels)

====
